---- MODULE Spec2Model ----
(***************************************************************************)
(* A model of NetworkProtoFramework: the Transport wrapper of              *)
(* transport.py (strict read/write over one connected stream socket) and   *)
(* the field-definition / Field / Packet layer of packet.py.               *)
(*                                                                         *)
(* Two Transports form a connected pair (socket.socketpair(), test.py      *)
(* transportPair): end 1 is the peer, end 2 the end whose read and hasData *)
(* are followed step by step.  Time is a discrete clock.  The code uses    *)
(* only differences of two clock readings taken inside one call, so the    *)
(* clock is kept relative to the entry of the call in progress on end 2.   *)
(***************************************************************************)
EXTENDS Integers, Sequences, FiniteSets, TLC

VARIABLES
    now,        \* time.monotonic() in clock ticks, counted from the entry of the
                \* call in progress on end 2 (0 while no call is in progress)
    buf,        \* buf[e]: bytes in flight towards end e, not yet received there
    peer,       \* state of end 1: "open", "closed" (EOF), "reset" (error pending)
    sock,       \* end 2's own socket and selector: "open" or "closed"
    timeout,    \* the active timeout of end 2's socket (socket.gettimeout())
    rd,         \* the frame of the Transport call in progress on end 2
    res,        \* outcome of the latest completed call of the API (of the
                \* field/packet layer: since its latest read was called)
    sent,       \* history: every byte end 1 has put on the wire, in order
    got,        \* history: concatenation of the results of successful reads
    faulted,    \* history: some Transport.read on end 2 ended in a fault
    lost,       \* history: the bytes received by reads that ended in a fault,
                \* each with the fault: [b |-> byte, st |-> exception]
    T,          \* the __structure__ of the packet type in use (field definitions)
    pkt,        \* the Packet instance the application holds: the values of the
                \* Fields of its __fields__, in order
    attrs,      \* names of the ordinary attributes assigned on that instance
    fld,        \* the value of the stand-alone Field bound to T[1]
    fr,         \* the frame of the Field.read / Packet.read in progress on end 2
    wlog,       \* history: the write calls made on end 1 by the field/packet layer
    nrd,        \* history: number of Field.read / Packet.read calls completed
    ncall,      \* history: number of calls the application made on the instance
    wr          \* the frame of the Field.write / Packet.write in progress on end 1

hist == <<sent, got, faulted, lost>>
pvars == <<T, pkt, attrs, fld, wlog, nrd, ncall, wr>>
vars == <<now, buf, peer, sock, timeout, rd, res, sent, got, faulted, lost,
          T, pkt, attrs, fld, fr, wlog, nrd, ncall, wr>>

----------------------------------------------------------------------------
(* Bounds of the model *)

MaxTime == 3        \* a call's clock stops MaxTime ticks after its entry
MaxSent == 3        \* bytes end 1 writes in total
MaxAmount == 2      \* largest amount asked of read
SndBuf == 2         \* bytes end 2 can queue towards a peer that reads nothing

\* The defaultTimeout the pair is built with: the 0.5 s of the test suite,
\* with a clock tick of 0.25 s.
DefaultTimeout == 2

MaxTimeout == DefaultTimeout    \* largest timeout given to setTimeout
MaxWrite == MaxAmount           \* longest single write of raw bytes

Ends == {1, 2}
Other(e) == 3 - e

Min(a, b) == IF a < b THEN a ELSE b

Take(s, k) == SubSeq(s, 1, k)

DropNothing(s, k) == s

Drop(s, k) == SubSeq(s, k + 1, Len(s))

IsPrefix(s, t) == Len(s) <= Len(t) /\ s = SubSeq(t, 1, Len(s))

----------------------------------------------------------------------------
(* Values of fields: None, an int, a bytes object, a str (a sequence of    *)
(* code points), or an instance of the Packet class cls whose fields hold   *)
(* the values f.                                                            *)

None == [t |-> "none", i |-> 0, b |-> <<>>, f |-> <<>>, cls |-> ""]
IntV(n) == [None EXCEPT !.t = "int", !.i = n]
BytesV(s) == [None EXCEPT !.t = "bytes", !.b = s]
StrV(s) == [None EXCEPT !.t = "str", !.b = s]
PacketV(cls, f) == [None EXCEPT !.t = "packet", !.f = f, !.cls = cls]

\* collections.OrderedDict(): a field table without Fields
NoFields == [None EXCEPT !.t = "dict"]

\* An exception raised instead of a value returned.
Exc(name) == [None EXCEPT !.t = name]
IsExc(v) == v.t \notin {"none", "int", "bytes", "str", "packet", "dict"}

----------------------------------------------------------------------------
(* Records *)

\* pc: "idle", "recv" (read, in a receive attempt), "ret" (read, returned to
\* the Field/Packet read that called, with st and data the outcome), "send"
\* (write, waiting for room, queued the bytes queued so far) or "select"
\* (hasData, waiting for the socket to become ready).
IdleRd == [pc |-> "idle", amount |-> 0, data |-> <<>>, oldTimeout |-> 0,
           deadline |-> 0, start |-> 0, st |-> "ok", queued |-> <<>>]

RetRd(st, val) == [IdleRd EXCEPT !.pc = "ret", !.st = st, !.data = val]

\* The Field.read / Packet.read in progress: ctx "field" or "packet"; k the
\* position in the iteration over the fields; phase "prefix" while a length
\* prefix is awaited, else "body"; seen: the bytes its tp.read calls returned;
\* alog: the fields assigned so far; nw: Len(wlog) when the call began; pre:
\* the field values of the instance when Packet.read was called.
\* Inside SerializableFD.read, j is the position in the iteration over the
\* fields of the fresh packetType() instance and sub their values; else j = 0.
\* on: where the Fields the Packet.read goes through are: "held" (in the
\* instance the application holds), "writer" (no longer there, but the
\* Packet.write in progress goes through the same Fields) or "gone" (nothing
\* else refers to them); races: the calls the application has made on the
\* instance since the read was called.
NoFrame == [pc |-> "none", ctx |-> "none", k |-> 0, phase |-> "none",
            seen |-> <<>>, alog |-> <<>>, nw |-> 0, fresh |-> FALSE,
            j |-> 0, sub |-> <<>>, pre |-> <<>>, on |-> "held", races |-> 0]

\* op: the call; st: "ok" or the exception raised; val: bytes returned (read)
\* or sent (write); num: amount asked (read) or value returned (hasData);
\* rcv: bytes the call received from the socket (for the Packet calls that
\* take names: how many of them are not declared); t0: active timeout at
\* entry.
\* log: for Packet.read and Packet.write, the fields handled, in order;
\* fresh: for Packet.read, the instance was as constructed without values;
\* pre: for Packet.read, the field values of the instance at the call; for
\* Field.write and Packet.write, the value(s) written.
\* tlast: for Transport.read, the active timeout when the loop was left.
\* races: for Packet.read and Packet.write, the calls the application made on
\* the instance while the call was in progress; on: for Packet.read, where
\* the Fields it went through are when it ends (see the frame).
Outcome(op, st, val, num, rcv, t0) ==
    [op |-> op, st |-> st, val |-> val, num |-> num, rcv |-> rcv, t0 |-> t0,
     log |-> <<>>, fresh |-> FALSE, tlast |-> 0, pre |-> <<>>, races |-> 0,
     on |-> "held"]

NoOutcome == Outcome("none", "ok", <<>>, 0, 0, 0)

\* The Field.write / Packet.write in progress on end 1, between two of its
\* tp.write calls: op "fwrite" or "pwrite"; pre: the value(s) at the call;
\* n: the number of fields to write and k the position of the one the call is
\* at; calls: the data of the tp.write calls the write of that field has still
\* to make (none: the field's write has not been called yet); st: how the
\* field's write ends once they are made; vals: the values of the fields
\* whose write was called, as read then; log: those fields; out: the bytes
\* sent so far.
\* on: where the Fields the Packet.write goes through are: "held" (in the
\* instance the application holds) or "own" (no longer there: tab holds their
\* values); races: the calls the application made on the instance meanwhile.
NoWriter == [pc |-> "none", op |-> "none", pre |-> <<>>, n |-> 0, k |-> 0,
             calls |-> <<>>, st |-> "ok", vals |-> <<>>, log |-> <<>>,
             out |-> <<>>, on |-> "own", tab |-> <<>>, races |-> 0]

ThreadIdle == rd.pc = "idle" /\ fr.pc = "none"

----------------------------------------------------------------------------
(* Transport.__init__ on both ends of a fresh socketpair *)

TransportInit ==
    /\ now = 0
    /\ buf = [e \in Ends |-> <<>>]
    /\ peer = "open"
    /\ sock = "open"
    /\ timeout = DefaultTimeout
    /\ rd = IdleRd
    /\ res = NoOutcome
    /\ sent = <<>>
    /\ got = <<>>
    /\ faulted = FALSE
    /\ lost = <<>>
    /\ fr = NoFrame
    /\ wlog = <<>>
    /\ nrd = 0
    /\ ncall = 0
    /\ wr = NoWriter

----------------------------------------------------------------------------
(* Transport.setTimeout / resetTimeout on end 2 *)

\* socket.settimeout stores the value, then fails with OSError on a closed
\* socket; nothing translates it.
SetTimeoutFault == IF sock = "open" THEN "ok" ELSE "OSError"

SetTimeout(t) ==
    /\ ThreadIdle
    /\ timeout' = t
    /\ res' = Outcome("setTimeout", SetTimeoutFault, <<>>, t, 0, 0)
    /\ UNCHANGED <<now, buf, peer, sock, rd, hist, pvars, fr>>

ResetTimeout ==
    /\ ThreadIdle
    /\ timeout' = DefaultTimeout
    /\ res' = Outcome("resetTimeout", SetTimeoutFault, <<>>, 0, 0, 0)
    /\ UNCHANGED <<now, buf, peer, sock, rd, hist, pvars, fr>>

----------------------------------------------------------------------------
(* Transport.write: socket.sendall(data), lines 47-57.  The bytes that fit  *)
(* the socket buffer are queued; if some do not fit, sendall waits for room *)
(* up to the active timeout, and with a full buffer it waits even when      *)
(* there is nothing to send.  End 1 never reads, so room never appears: the *)
(* wait ends in socket.timeout -> Timeout, or, when the peer closes         *)
(* meanwhile, in socket.error -> NetworkError.  A closed socket or a closed *)
(* peer at the call raises NetworkError at once.                            *)

\* The first attempt of sendall: st "ok", "NetworkError" or "blocked";
\* sentBytes the bytes queued; wait the time sendall will wait when blocked.
SendAll(e, d) ==
    LET o    == Other(e)
        \* end 1's send buffer holds everything the model writes on end 1
        room == IF e = 2 THEN SndBuf - Len(buf[o]) ELSE Len(d)
        tmo  == IF e = 2 THEN timeout ELSE DefaultTimeout
    IN  IF peer # "open" \/ sock # "open"
        THEN [st |-> "NetworkError", sentBytes |-> <<>>, wait |-> 0]
        ELSE IF e = 2 /\ room <= 0
        THEN [st |-> "blocked", sentBytes |-> <<>>, wait |-> tmo]
        ELSE IF Len(d) <= room
        THEN [st |-> "ok", sentBytes |-> d, wait |-> 0]
        ELSE [st |-> "blocked", sentBytes |-> Take(d, room), wait |-> tmo]

\* The frame of a write that waits for room
SendFrame(r) ==
    [IdleRd EXCEPT !.pc = "send", !.queued = r.sentBytes,
                   !.deadline = now + r.wait, !.start = now]

Write(e, d) ==
    /\ e = 2 => ThreadIdle
    /\ LET r == SendAll(e, d) IN
        /\ buf' = [buf EXCEPT ![Other(e)] = @ \o r.sentBytes]
        /\ sent' = IF e = 1 THEN sent \o r.sentBytes ELSE sent
        /\ IF r.st = "blocked"
           THEN /\ rd' = SendFrame(r)
                /\ UNCHANGED res
           ELSE /\ res' = Outcome("write", r.st, r.sentBytes, e, 0, 0)
                /\ UNCHANGED rd
    /\ UNCHANGED <<now, peer, sock, timeout, got, faulted, lost, pvars, fr>>

\* Lines 53-54: no room appeared within the active timeout.
SendTimeout ==
    /\ rd.pc = "send"
    /\ peer = "open"
    /\ now >= rd.deadline
    /\ rd' = IdleRd
    /\ now' = 0
    /\ res' = Outcome("write", "Timeout", rd.queued, 2, 0, 0)
    /\ UNCHANGED <<buf, peer, sock, timeout, hist, pvars, fr>>

\* Lines 55-57: the peer closed while sendall waited.
SendError ==
    /\ rd.pc = "send"
    /\ peer # "open"
    /\ rd' = IdleRd
    /\ now' = 0
    /\ res' = Outcome("write", "NetworkError", rd.queued, 2, 0, 0)
    /\ UNCHANGED <<buf, peer, sock, timeout, hist, pvars, fr>>

\* The bytes end 1 writes are numbered by their position in the stream.
NextBytes(n) == [i \in 1..n |-> Len(sent) + i]

----------------------------------------------------------------------------
(* Transport.read(amount) on end 2, lines 64-83.                            *)

\* The call returns or raises.
Finish(st, val, data) ==
    /\ now' = 0
    /\ IF fr.pc = "none"
       THEN /\ rd' = IdleRd
            /\ res' = [Outcome("read", st, val, rd.amount, Len(data),
                               rd.oldTimeout)
                        EXCEPT !.tlast = IF st \in {"ok", "Timeout"}
                                         THEN rd.deadline - now ELSE timeout]
       ELSE /\ rd' = RetRd(st, val)
            /\ UNCHANGED res
    /\ got' = IF st = "ok" THEN got \o val ELSE got
    /\ faulted' = (faulted \/ st # "ok")
    /\ lost' = IF st = "ok" THEN lost
               ELSE lost \o [i \in 1..Len(data) |-> [b |-> data[i], st |-> st]]

\* Lines 66-69: the frame of a read that enters its loop
RecvFrame(amount) ==
    [IdleRd EXCEPT !.pc = "recv", !.amount = amount, !.oldTimeout = timeout,
                   !.deadline = now + timeout, !.start = now]

LoopEnteredAlways(amount) == TRUE

\* Line 69 at the first test: len(data) < amount with data empty
LoopEntered(amount) == 0 < amount

\* Lines 66-69 and, when the loop is not entered, 79-80.
ReadCall(amount) ==
    /\ ThreadIdle
    /\ IF sock # "open"
       THEN \* recv (line 71) or, for amount = 0, settimeout (line 79) raises
            \* OSError on the closed socket: NetworkError, lines 81-83
            /\ rd' = IdleRd
            /\ res' = [Outcome("read", "NetworkError", <<>>, amount, 0, timeout)
                        EXCEPT !.tlast = timeout]
            /\ faulted' = TRUE
            /\ UNCHANGED <<got, lost>>
       ELSE IF LoopEntered(amount)
       THEN /\ rd' = RecvFrame(amount)
            /\ UNCHANGED <<res, got, faulted, lost>>
       ELSE /\ rd' = IdleRd
            /\ res' = [Outcome("read", "ok", <<>>, amount, 0, timeout)
                        EXCEPT !.tlast = timeout]
            /\ UNCHANGED <<got, faulted, lost>>
    /\ UNCHANGED <<now, buf, peer, sock, timeout, sent, pvars, fr>>

RestoreSkipped(oldTimeout, interval) == interval

\* Lines 77 and 79: settimeout(oldTimeout) after settimeout(interval)
Restore(oldTimeout, interval) == oldTimeout

\* Lines 74-80, run after a receive attempt left `data` accumulated.
AfterRecv(data) ==
    LET interval == rd.deadline - now IN
    IF interval < 0
    THEN \* settimeout(interval) raises ValueError, which no handler translates
         /\ Finish("ValueError", <<>>, data)
         /\ UNCHANGED timeout
    ELSE IF interval = 0
    THEN /\ Finish("Timeout", <<>>, data)
         /\ timeout' = Restore(rd.oldTimeout, interval)
    ELSE IF Len(data) < rd.amount
    THEN /\ rd' = [rd EXCEPT !.data = data, !.start = now]
         /\ timeout' = interval
         /\ UNCHANGED <<now, res, got, faulted, lost>>
    ELSE /\ Finish("ok", data, data)
         /\ timeout' = Restore(rd.oldTimeout, interval)

\* Line 71: socket.recv(amount) hands over k >= 1 of the bytes received so
\* far, at most `amount` of them, whatever has been accumulated already.
RecvLimit == rd.amount

AccumulateOverwrite(data, chunk) == chunk

\* Line 71: data += chunk
Accumulate(data, chunk) == data \o chunk

RecvData(k) ==
    /\ rd.pc = "recv"
    /\ k \in 1..Min(RecvLimit, Len(buf[2]))
    /\ buf' = [buf EXCEPT ![2] = Drop(@, k)]
    /\ AfterRecv(Accumulate(rd.data, Take(buf[2], k)))
    /\ UNCHANGED <<peer, sock, sent, pvars, fr>>

\* Lines 72-73: nothing arrived within the active timeout.
RecvTimeout ==
    /\ rd.pc = "recv"
    /\ buf[2] = <<>>
    /\ peer = "open"
    /\ now >= rd.start + timeout
    /\ AfterRecv(rd.data)
    /\ UNCHANGED <<buf, peer, sock, sent, pvars, fr>>

\* The peer has closed: recv returns b'' at once.
RecvEOF ==
    /\ rd.pc = "recv"
    /\ buf[2] = <<>>
    /\ peer = "closed"
    /\ AfterRecv(rd.data)
    /\ UNCHANGED <<buf, peer, sock, sent, pvars, fr>>

\* Lines 81-83: recv raises a socket.error other than socket.timeout.
RecvError ==
    /\ rd.pc = "recv"
    /\ buf[2] = <<>>
    /\ peer = "reset"
    /\ peer' = "closed"
    /\ Finish("NetworkError", <<>>, rd.data)
    /\ UNCHANGED <<buf, sock, timeout, sent, pvars, fr>>

----------------------------------------------------------------------------
(* Transport._isReady / hasData on end 2, lines 89-94 *)

Readable == buf[2] # <<>> \/ peer # "open"
Writable == Len(buf[1]) < SndBuf \/ peer # "open"

\* Line 90: selector.select(self.timeout)[0][1]
SelectResult == IF Readable THEN 1 ELSE 0

HasData ==
    /\ ThreadIdle
    /\ IF sock # "open"
       THEN \* selector.select on the closed selector raises ValueError
            /\ res' = Outcome("hasData", "ValueError", <<>>, 0, 0, 0)
            /\ UNCHANGED rd
       ELSE IF Readable \/ Writable
       THEN /\ res' = Outcome("hasData", "ok", <<>>, SelectResult, 0, 0)
            /\ UNCHANGED rd
       ELSE \* select() waits for the socket to become ready
            /\ rd' = [IdleRd EXCEPT !.pc = "select",
                                    !.deadline = now + timeout, !.start = now]
            /\ UNCHANGED res
    /\ UNCHANGED <<now, buf, peer, sock, timeout, hist, pvars, fr>>

\* The socket became ready while select() waited.
SelectReady ==
    /\ rd.pc = "select"
    /\ Readable \/ Writable
    /\ rd' = IdleRd
    /\ now' = 0
    /\ res' = Outcome("hasData", "ok", <<>>, SelectResult, 0, 0)
    /\ UNCHANGED <<buf, peer, sock, timeout, hist, pvars, fr>>

\* select() returns [] after the timeout; [0] raises IndexError.
SelectTimeout ==
    /\ rd.pc = "select"
    /\ ~(Readable \/ Writable)
    /\ now >= rd.deadline
    /\ rd' = IdleRd
    /\ now' = 0
    /\ res' = Outcome("hasData", "IndexError", <<>>, 0, 0, 0)
    /\ UNCHANGED <<buf, peer, sock, timeout, hist, pvars, fr>>

----------------------------------------------------------------------------
(* Transport.close on end 1.  Bytes already in flight to end 2 stay         *)
(* readable; unread bytes at end 1 make the close a reset.                  *)

Close ==
    /\ peer = "open"
    /\ peer' = IF buf[1] # <<>> THEN "reset" ELSE "closed"
    /\ res' = Outcome("close", "ok", <<>>, 1, 0, 0)
    /\ UNCHANGED <<now, buf, sock, timeout, rd, hist, pvars, fr>>

\* Transport.close on end 2, lines 85-87.  The bytes still unread at end 2
\* can be read by nobody afterwards; buf keeps them as never received.
CloseLocal ==
    /\ ThreadIdle
    /\ sock = "open"
    /\ sock' = "closed"
    /\ res' = Outcome("close", "ok", <<>>, 2, 0, 0)
    /\ UNCHANGED <<now, buf, peer, timeout, rd, hist, pvars, fr>>

\* The clock is read only inside read (lines 68 and 74).  Time passes while
\* a receive attempt, sendall or select waits, and may pass between any two
\* lines of read even when the bytes are there (the process is not
\* scheduled).
Tick ==
    /\ rd.pc \in {"recv", "send", "select"}
    /\ now < MaxTime
    /\ now' = now + 1
    /\ UNCHANGED <<buf, peer, sock, timeout, rd, res, hist, pvars, fr>>


----------------------------------------------------------------------------
(* Field definitions, packet.py lines 51-317.  `length` is the byte length  *)
(* of FixedLengthFD and IntFD and the lengthFieldSize of VarLengthFD and    *)
(* StringFD, whose min, max and order are those of the internal lengthFD.   *)

FieldDef(kind, name, length) ==
    [kind |-> kind, name |-> name, default |-> None, length |-> length,
     min |-> None, max |-> None, order |-> "big", signed |-> FALSE,
     packetType |-> [name |-> "", structure |-> <<>>]]

FixedLengthFD(name, length) == FieldDef("Fixed", name, length)
VarLengthFD(name, lengthFieldSize) == FieldDef("Var", name, lengthFieldSize)
IntFD(name, length) == FieldDef("Int", name, length)
StringFD(name, lengthFieldSize) == FieldDef("String", name, lengthFieldSize)

\* Lines 252-254.  packetType is a Packet subclass: its name and its
\* __structure__.
SerializableFD(name, packetType) ==
    [FieldDef("Serializable", name, 0) EXCEPT !.packetType = packetType]

setDefault(fd, v) == [fd EXCEPT !.default = v]
setMin(fd, n) == [fd EXCEPT !.min = IntV(n)]
setMax(fd, n) == [fd EXCEPT !.max = IntV(n)]
setOrder(fd, o) == [fd EXCEPT !.order = o]
setSigned(fd, sg) == [fd EXCEPT !.signed = sg]
setMinLength(fd, n) == setMin(fd, n)
setMaxLength(fd, n) == setMax(fd, n)
setLengthOrder(fd, o) == setOrder(fd, o)

\* VarLengthFD.lengthFD (line 106) with the forwarded settings
lengthFD(fd) == [fd EXCEPT !.kind = "Int", !.default = None, !.signed = FALSE]
\* IntFD.innerFD (line 146): the FixedLengthFD of the same length
innerFixedFD(fd) == FixedLengthFD(fd.name, fd.length)
\* StringFD.innerFD (line 280): the VarLengthFD with the forwarded settings
innerVarFD(fd) == [fd EXCEPT !.kind = "Var", !.default = None]

----------------------------------------------------------------------------
(* int.to_bytes / int.from_bytes and str.encode / bytes.decode("utf-8")     *)

RECURSIVE Pow256(_)
Pow256(n) == IF n = 0 THEN 1 ELSE 256 * Pow256(n - 1)

RECURSIVE Reverse(_)
Reverse(s) == IF s = <<>> THEN <<>> ELSE Reverse(Tail(s)) \o <<Head(s)>>

RECURSIVE BigEndian(_, _)
BigEndian(u, length) ==
    IF length = 0 THEN <<>>
    ELSE BigEndian(u \div 256, length - 1) \o <<(u % 256)>>

\* n.to_bytes(length, order, signed=signed) does not raise OverflowError
Representable(n, length, signed) ==
    IF ~signed THEN 0 <= n /\ n < Pow256(length)
    ELSE IF length = 0 THEN n \in {-1, 0}
    ELSE -(Pow256(length) \div 2) <= n /\ n < Pow256(length) \div 2

ToBytes(n, length, order, signed) ==
    LET u == IF n < 0 THEN n + Pow256(length) ELSE n
        b == BigEndian(u, length)
    IN  IF order = "big" THEN b ELSE Reverse(b)

RECURSIVE Unsigned(_)
Unsigned(big) ==
    IF big = <<>> THEN 0
    ELSE 256 * Unsigned(SubSeq(big, 1, Len(big) - 1)) + big[Len(big)]

FromBytes(b, order, signed) ==
    LET u == Unsigned(IF order = "big" THEN b ELSE Reverse(b))
    IN  IF signed /\ b # <<>> /\ u >= Pow256(Len(b)) \div 2
        THEN u - Pow256(Len(b)) ELSE u

\* UTF-8 of code points below 0x800 (one or two bytes each).
RECURSIVE Utf8Encode(_)
Utf8Encode(cps) ==
    IF cps = <<>> THEN <<>>
    ELSE LET c == Head(cps) IN
         (IF c < 128 THEN <<c>> ELSE <<192 + (c \div 64), 128 + (c % 64)>>)
         \o Utf8Encode(Tail(cps))

\* bytes.decode("utf-8") of bytes whose lead bytes are below 0xE0: the code
\* points, or <<-1>> for UnicodeDecodeError.
RECURSIVE Utf8Decode(_)
Utf8Decode(b) ==
    IF b = <<>> THEN <<>>
    ELSE IF b[1] < 128
    THEN LET r == Utf8Decode(Tail(b)) IN
         IF r = <<-1>> THEN r ELSE <<b[1]>> \o r
    ELSE IF b[1] >= 194 /\ b[1] < 224 /\ Len(b) >= 2 /\ b[2] >= 128 /\ b[2] < 192
    THEN LET r == Utf8Decode(Drop(b, 2)) IN
         IF r = <<-1>> THEN r ELSE <<(b[1] - 192) * 64 + (b[2] - 128)>> \o r
    ELSE <<-1>>

----------------------------------------------------------------------------
(* checkValue of each kind *)

FixedCheckValue(fd, v) == v.t = "bytes" /\ Len(v.b) = fd.length

VarCheckValue(fd, v) == v.t = "bytes"

IntCheckValueInclusiveMax(fd, v) ==
    /\ v.t = "int"
    /\ (fd.min = None \/ fd.min.i <= v.i)
    /\ (fd.max = None \/ v.i <= fd.max.i)

\* Line 187
IntCheckValue(fd, v) ==
    /\ v.t = "int"
    /\ (fd.min = None \/ fd.min.i <= v.i)
    /\ (fd.max = None \/ v.i < fd.max.i)

StringCheckValue(fd, v) == v.t = "str"

\* Lines 273-274: isinstance(value, self.packetType)
SerializableCheckValue(fd, v) == v.t = "packet" /\ v.cls = fd.packetType.name

checkValue(fd, v) ==
    CASE fd.kind = "Fixed" -> FixedCheckValue(fd, v)
      [] fd.kind = "Var" -> VarCheckValue(fd, v)
      [] fd.kind = "Int" -> IntCheckValue(fd, v)
      [] fd.kind = "String" -> StringCheckValue(fd, v)
      [] fd.kind = "Serializable" -> SerializableCheckValue(fd, v)

----------------------------------------------------------------------------
(* FieldDef.write(value, tp): what the definition does with a value, up to  *)
(* the transport: [st, out, calls], the exception it raises itself ("ok":   *)
(* none), the bytes it hands to tp.write and the data of each tp.write call *)
(* in order.  What the transport makes of a call is decided when the call   *)
(* is made (WriteStep).                                                     *)

NoWrite == [st |-> "ok", out |-> <<>>, calls |-> <<>>]

\* tp.write(d), line 88
TpWrite(w, d) ==
    IF w.st # "ok" THEN w
    ELSE [w EXCEPT !.out = w.out \o d, !.calls = Append(@, d)]

Raise(w, exc) == IF w.st # "ok" THEN w ELSE [w EXCEPT !.st = exc]

\* Lines 82-88
FixedWrite(fd, v, w) ==
    IF ~FixedCheckValue(fd, v) THEN Raise(w, "AssertionError")
    ELSE TpWrite(w, v.b)

\* Lines 169-175
IntWrite(fd, v, w) ==
    IF ~IntCheckValue(fd, v) THEN Raise(w, "AssertionError")
    ELSE IF ~Representable(v.i, fd.length, fd.signed)
    THEN Raise(w, "OverflowError")
    ELSE FixedWrite(innerFixedFD(fd),
                    BytesV(ToBytes(v.i, fd.length, fd.order, fd.signed)), w)

\* Lines 120-127
VarWrite(fd, v, w) ==
    IF ~VarCheckValue(fd, v) THEN Raise(w, "AssertionError")
    ELSE TpWrite(IntWrite(lengthFD(fd), IntV(Len(v.b)), w), v.b)

\* Lines 299-305
StringWrite(fd, v, w) ==
    IF ~StringCheckValue(fd, v) THEN Raise(w, "AssertionError")
    ELSE VarWrite(innerVarFD(fd), BytesV(Utf8Encode(v.b)), w)

\* Packet.write(tp) of an instance with the fields defs and the values p
RECURSIVE PacketWriteOf(_, _, _)

\* Lines 256-262: value.write(tp)
SerializableWrite(fd, v, w) ==
    IF ~SerializableCheckValue(fd, v) THEN Raise(w, "AssertionError")
    ELSE PacketWriteOf(fd.packetType.structure, v.f, w)

FDWrite(fd, v, w) ==
    IF w.st # "ok" THEN w
    ELSE CASE fd.kind = "Fixed" -> FixedWrite(fd, v, w)
           [] fd.kind = "Var" -> VarWrite(fd, v, w)
           [] fd.kind = "Int" -> IntWrite(fd, v, w)
           [] fd.kind = "String" -> StringWrite(fd, v, w)
           [] fd.kind = "Serializable" -> SerializableWrite(fd, v, w)

----------------------------------------------------------------------------
(* FieldDef.read(tp): what each kind makes of the bytes tp.read returned    *)

\* Lines 95-97, after tp.read(self.length) returned data
FixedRead(fd, data) ==
    IF FixedCheckValue(fd, BytesV(data)) THEN BytesV(data)
    ELSE Exc("AssertionError")

\* Lines 182-184
IntRead(fd, data) ==
    LET inner == FixedRead(innerFixedFD(fd), data) IN
    IF IsExc(inner) THEN inner
    ELSE LET v == IntV(FromBytes(inner.b, fd.order, fd.signed)) IN
         IF IntCheckValue(fd, v) THEN v ELSE Exc("AssertionError")

\* Line 134: the length VarLengthFD.read asks tp.read for next
VarReadLength(fd, data) == IntRead(lengthFD(fd), data)

\* Lines 135-137, after tp.read(length) returned data
VarReadBody(fd, data) ==
    IF VarCheckValue(fd, BytesV(data)) THEN BytesV(data)
    ELSE Exc("AssertionError")

\* Lines 312-314, after innerFD.read returned
StringReadBody(fd, data) ==
    LET inner == VarReadBody(innerVarFD(fd), data) IN
    IF IsExc(inner) THEN inner
    ELSE LET cps == Utf8Decode(inner.b) IN
         IF cps = <<-1>> THEN Exc("UnicodeDecodeError")
         ELSE IF StringCheckValue(fd, StrV(cps)) THEN StrV(cps)
         ELSE Exc("AssertionError")

HasPrefix(fd) == fd.kind \in {"Var", "String"}

----------------------------------------------------------------------------
(* Field (lines 27-48) and the steps of a read of the field/packet layer    *)

\* tp.read(amount) called by a field definition
StartRead(amount) ==
    /\ rd' = IF sock # "open" THEN RetRd("NetworkError", <<>>)
             ELSE IF LoopEntered(amount) THEN RecvFrame(amount)
             ELSE RetRd("ok", <<>>)
    /\ faulted' = (faulted \/ sock # "open")

FirstPhase(fd) == IF HasPrefix(fd) THEN "prefix" ELSE "body"

\* The order in which Packet.write and Packet.read go through the fields:
\* self.__fields__.values(), filled in __structure__ order (lines 331-334).
FieldOrderReversed(n) == [j \in 1..n |-> n + 1 - j]

FieldOrder(n) == [j \in 1..n |-> j]

\* The field a read in progress is at
CurField == IF fr.ctx = "packet" THEN FieldOrder(Len(T))[fr.k] ELSE 1

\* The __structure__ of the packetType of a SerializableFD (one level of
\* nesting: its fields are not SerializableFD themselves, and it has some)
InnerDefs(fd) == fd.packetType.structure

\* The position in InnerDefs of the j-th field of the iteration
InnerField(fd, j) == FieldOrder(Len(InnerDefs(fd)))[j]

\* The definition whose read called tp.read
CurDef ==
    IF fr.j > 0 THEN InnerDefs(T[CurField])[InnerField(T[CurField], fr.j)]
    ELSE T[CurField]

\* The definition that calls tp.read first when fd.read(tp) is called:
\* line 268 constructs packetType() and calls its read (lines 342-344).
FirstDef(fd) ==
    IF fd.kind = "Serializable" THEN InnerDefs(fd)[InnerField(fd, 1)] ELSE fd

\* The frame f at the call of fd.read(tp)
EnterField(f, fd) ==
    IF fd.kind = "Serializable"
    THEN [f EXCEPT !.phase = FirstPhase(FirstDef(fd)), !.j = 1,
                   !.sub = [d \in 1..Len(InnerDefs(fd)) |->
                               InnerDefs(fd)[d].default]]
    ELSE [f EXCEPT !.phase = FirstPhase(fd), !.j = 0, !.sub = <<>>]

\* The read of the field/packet layer returns or raises.
EndRead(st, seen, alog) ==
    /\ rd' = IdleRd
    /\ fr' = NoFrame
    /\ nrd' = nrd + 1
    /\ res' = [Outcome(IF fr.ctx = "packet" THEN "pread" ELSE "fread",
                       st, seen, fr.nw, CurField, 0)
                EXCEPT !.log = alog, !.fresh = fr.fresh, !.pre = fr.pre,
                       !.races = fr.races, !.on = fr.on]

\* What the definition's read returns once all its bytes are there
ReadValue(fd, data) ==
    CASE fd.kind = "Fixed" -> FixedRead(fd, data)
      [] fd.kind = "Int" -> IntRead(fd, data)
      [] fd.kind = "Var" -> VarReadBody(fd, data)
      [] fd.kind = "String" -> StringReadBody(fd, data)

AssignSkipped(old, v) == old

\* Field.read, line 48: self.value = the value definition.read returned
Assign(old, v) == v

ValueAfterFaultCleared(old) == None

\* Field.read, line 48: definition.read raised, the assignment is not reached
ValueAfterFault(old) == old

\* The value held by the Field of position i that a Packet.read goes through:
\* a Field of the instance the application holds, or, once that instance has
\* another field table, of the table the loop still iterates (which a
\* Packet.write in progress may iterate as well; otherwise nothing else
\* refers to it and its value is not kept).
Held(i) ==
    IF fr.on = "held" THEN pkt[i]
    ELSE IF fr.on = "writer" /\ wr.pc = "busy" THEN wr.tab[i]
    ELSE None

\* That Field takes the value v
Store(i, v) ==
    /\ pkt' = IF fr.on = "held" THEN [pkt EXCEPT ![i] = v] ELSE pkt
    /\ wr' = IF fr.on = "writer" /\ wr.pc = "busy"
             THEN [wr EXCEPT !.tab[i] = v] ELSE wr

\* The read of the current field raises st
FieldFault(st, seen) ==
    /\ EndRead(st, seen, fr.alog)
    /\ IF fr.ctx = "packet"
       THEN /\ Store(CurField, ValueAfterFault(Held(CurField)))
            /\ UNCHANGED fld
       ELSE /\ fld' = ValueAfterFault(fld)
            /\ UNCHANGED <<pkt, wr>>

\* tp.read has returned to the field definition that called it.
FieldStep ==
    /\ rd.pc = "ret"
    /\ fr.pc = "wait"
    /\ LET fd   == CurDef
           seen == fr.seen \o rd.data
       IN
       IF rd.st # "ok"
       THEN /\ FieldFault(rd.st, seen)
            /\ UNCHANGED faulted
       ELSE IF fr.phase = "prefix"
       THEN LET n == VarReadLength(fd, rd.data) IN
            IF IsExc(n)
            THEN /\ FieldFault(n.t, seen)
                 /\ UNCHANGED faulted
            ELSE /\ fr' = [fr EXCEPT !.phase = "body", !.seen = seen]
                 /\ StartRead(n.i)
                 /\ UNCHANGED <<pkt, fld, res, nrd, wr>>
       ELSE LET v == ReadValue(fd, rd.data) IN
            IF IsExc(v)
            THEN /\ FieldFault(v.t, seen)
                 /\ UNCHANGED faulted
            ELSE IF fr.ctx = "field"
            THEN \* Field.read, line 48
                 /\ fld' = Assign(fld, v)
                 /\ EndRead("ok", seen, fr.alog)
                 /\ UNCHANGED <<pkt, wr, faulted>>
            ELSE IF fr.j > 0
            THEN \* Packet.read of the packetType() instance, lines 343-344
                 LET outer == T[CurField]
                     sub == [fr.sub EXCEPT ![InnerField(outer, fr.j)] = v]
                 IN
                 IF fr.j < Len(InnerDefs(outer))
                 THEN LET nxt == InnerDefs(outer)[InnerField(outer, fr.j + 1)] IN
                      /\ fr' = [fr EXCEPT !.j = fr.j + 1,
                                          !.phase = FirstPhase(nxt),
                                          !.seen = seen, !.sub = sub]
                      /\ StartRead(nxt.length)
                      /\ UNCHANGED <<pkt, fld, res, nrd, wr>>
                 ELSE \* Packet.read returns None: value = None (line 268) and
                      \* the assert of line 270 fails
                      IF SerializableCheckValue(outer, None)
                      THEN /\ Store(CurField, Assign(Held(CurField), None))
                           /\ EndRead("ok", seen, Append(fr.alog, CurField))
                           /\ UNCHANGED <<fld, faulted>>
                      ELSE /\ FieldFault("AssertionError", seen)
                           /\ UNCHANGED faulted
            ELSE \* Packet.read, lines 343-344
                 /\ Store(CurField, Assign(Held(CurField), v))
                 /\ UNCHANGED fld
                 /\ IF fr.k = Len(T)
                    THEN /\ EndRead("ok", seen, Append(fr.alog, CurField))
                         /\ UNCHANGED faulted
                    ELSE LET nxt == T[FieldOrder(Len(T))[fr.k + 1]] IN
                         /\ fr' = EnterField(
                                    [fr EXCEPT !.k = fr.k + 1, !.seen = seen,
                                               !.alog = Append(fr.alog, CurField)],
                                    nxt)
                         /\ StartRead(FirstDef(nxt).length)
                         /\ UNCHANGED <<res, nrd>>
    /\ UNCHANGED <<now, buf, peer, sock, timeout, sent, got, lost, T, attrs, wlog, ncall>>

----------------------------------------------------------------------------
(* A stand-alone Field, used as FieldTestCase._test_FD does: one Field      *)
(* object written to end 1 and read from end 2.  The writer on end 1 and    *)
(* the reader on end 2 are two threads (or processes): a step of one can    *)
(* fall between any two tp.write or recv calls of the other.                *)

MaxWrites == 1      \* write calls of the field/packet layer
MaxReads == 1       \* read calls of the field/packet layer

\* field.value = v (lines 40-42)
FieldSet(v) ==
    /\ ThreadIdle
    /\ fld' = v
    /\ res' = Outcome("set", "ok", <<>>, 0, 0, 0)
    /\ UNCHANGED <<now, buf, peer, sock, timeout, rd, hist, T, pkt, attrs, fr, wlog, nrd, wr, ncall>>

\* wlog after a write call of kind op that ended st, called with the value(s)
\* pre, having taken the value(s) vals, with the bytes out sent.  A call that
\* raised before sending leaves no entry.
Logged(op, st, pre, vals, out) ==
    IF st # "ok" /\ out = <<>> THEN wlog
    ELSE Append(wlog, [op |-> op, st |-> st, pre |-> pre, vals |-> vals,
                       out |-> out])

\* The Field.write / Packet.write in progress on end 1 returns or raises st.
EndWrite(st, out, vals, log) ==
    /\ wr' = NoWriter
    /\ wlog' = Logged(wr.op, st, wr.pre, vals, out)
    /\ res' = [Outcome(wr.op, st, out, 0, 0, 0)
                EXCEPT !.log = log, !.pre = wr.pre, !.races = wr.races]
    /\ fr' = IF fr.on = "writer" THEN [fr EXCEPT !.on = "gone"] ELSE fr

\* The value field.write(tp) passes on (line 45: self.value) when the loop of
\* Packet.write reaches the Field of position i
ValueAt(i) == IF wr.on = "held" THEN pkt[i] ELSE wr.tab[i]

\* The next tp.write call of the write in progress on end 1 (packet.py line
\* 88), with what precedes it since the last one (for Packet.write: the loop
\* of lines 339-340 calls the next field's write, which reads the value the
\* Field holds now and validates it) and what follows it up to the next
\* tp.write call or to the end of the Field.write / Packet.write.
WriteStep ==
    /\ wr.pc = "busy"
    /\ LET enter == wr.calls = <<>>
           i     == FieldOrder(wr.n)[wr.k]
           w     == IF enter THEN FDWrite(T[i], ValueAt(i), NoWrite)
                    ELSE [NoWrite EXCEPT !.st = wr.st, !.calls = wr.calls]
           log   == IF enter THEN Append(wr.log, i) ELSE wr.log
           vals  == IF enter THEN Append(wr.vals, ValueAt(i)) ELSE wr.vals
       IN
       IF w.calls = <<>>
       THEN \* the field's write raised before its first tp.write call
            /\ EndWrite(w.st, wr.out, vals, log)
            /\ UNCHANGED <<buf, sent>>
       ELSE LET r    == SendAll(1, Head(w.calls))
                out  == wr.out \o r.sentBytes
                rest == Tail(w.calls)
            IN
            /\ buf' = [buf EXCEPT ![2] = @ \o r.sentBytes]
            /\ sent' = sent \o r.sentBytes
            /\ IF r.st # "ok"
               THEN EndWrite(r.st, out, vals, log)
               ELSE IF rest = <<>> /\ w.st # "ok"
               THEN EndWrite(w.st, out, vals, log)
               ELSE IF rest = <<>> /\ wr.k = wr.n
               THEN EndWrite("ok", out, vals, log)
               ELSE /\ wr' = [wr EXCEPT !.k = IF rest = <<>> THEN @ + 1 ELSE @,
                                        !.calls = rest, !.st = w.st,
                                        !.out = out, !.vals = vals, !.log = log]
                    /\ UNCHANGED <<res, wlog, fr>>
    /\ UNCHANGED <<now, peer, sock, timeout, rd, got, faulted, lost, T, pkt, attrs, fld, nrd, ncall>>

\* Field.write(tp) on end 1 (lines 44-45): definition.write(self.value, tp)
\* with the value the field holds at the call, up to the first tp.write call.
\* A call that raises before any tp.write ends here.
FieldWrite ==
    /\ wr.pc = "none"
    /\ Len(wlog) < MaxWrites
    /\ LET w == FDWrite(T[1], fld, NoWrite) IN
       IF w.calls = <<>>
       THEN /\ wlog' = Logged("fwrite", w.st, <<fld>>, <<fld>>, <<>>)
            /\ res' = [Outcome("fwrite", w.st, <<>>, 0, 0, 0) EXCEPT !.pre = <<fld>>]
            /\ UNCHANGED wr
       ELSE /\ wr' = [NoWriter EXCEPT !.pc = "busy", !.op = "fwrite",
                                      !.pre = <<fld>>, !.vals = <<fld>>,
                                      !.n = 1, !.k = 1,
                                      !.calls = w.calls, !.st = w.st]
            /\ UNCHANGED <<res, wlog>>
    /\ UNCHANGED <<now, buf, peer, sock, timeout, rd, hist, T, pkt, attrs, fld, fr, nrd, ncall>>

\* Field.read(tp) on end 2 (lines 47-48): the call of definition.read
FieldRead ==
    /\ ThreadIdle
    /\ nrd < MaxReads
    /\ fr' = [NoFrame EXCEPT !.pc = "wait", !.ctx = "field", !.k = 1,
                             !.phase = FirstPhase(T[1]), !.nw = Len(wlog)]
    /\ StartRead(T[1].length)
    /\ res' = NoOutcome
    /\ UNCHANGED <<now, buf, peer, sock, timeout, sent, got, lost, pvars>>

\* Bytes written to end 1 directly (any peer may send any bytes), by the
\* thread that writes on end 1
RawWrite(d) ==
    /\ wr.pc = "none"
    /\ Len(wlog) < MaxWrites
    /\ LET r == SendAll(1, d) IN
        /\ buf' = [buf EXCEPT ![2] = @ \o r.sentBytes]
        /\ sent' = sent \o r.sentBytes
        /\ wlog' = Logged("write", r.st, <<>>, <<>>, r.sentBytes)
        /\ res' = Outcome("write", r.st, r.sentBytes, 1, 0, 0)
    /\ UNCHANGED <<now, peer, sock, timeout, rd, got, faulted, lost, T, pkt, attrs, fld, fr, nrd, wr, ncall>>

\* The field definitions of the runs: those of FieldTestCase (test.py lines
\* 85, 91, 97, 101), and others with bounds, a two-byte prefix, little-endian
\* order and text.
FieldDefs ==
    { FixedLengthFD("Test", 2),
      VarLengthFD("Test", 1),
      setMaxLength(setMinLength(VarLengthFD("Test", 1), 1), 2),
      VarLengthFD("Test", 2),
      IntFD("Test", 2),
      setSigned(IntFD("Test", 2), TRUE),
      setOrder(IntFD("Test", 2), "little"),
      setMax(setMin(IntFD("Test", 1), 1), 3),
      setMaxLength(StringFD("Test", 1), 3) }

\* The values a run gives a Field of definition fd: values of its type at and
\* around its bounds and its range, None and one value of a wrong type.
IntCandidates(fd) ==
    IF fd.min # None
    THEN {fd.min.i - 1, fd.min.i, fd.max.i - 1, fd.max.i}
    ELSE IF fd.signed THEN {-123, 123, 32768}
    ELSE {-123, 123, 258, 65536}

Candidates(fd) ==
    CASE fd.kind = "Int" ->
            {IntV(n) : n \in IntCandidates(fd)} \cup {None, BytesV(<<7>>)}
      [] fd.kind \in {"Fixed", "Var"} ->
            {BytesV(<<>>), BytesV(<<7>>), BytesV(<<1, 2>>), None, IntV(1)}
      [] fd.kind = "String" ->
            {StrV(<<72>>), StrV(<<72, 233>>), None, BytesV(<<7>>)}

RawChunks == {<<0>>, <<3>>}

FieldInit ==
    /\ TransportInit
    /\ T \in {<<fd>> : fd \in FieldDefs}
    /\ fld = T[1].default
    /\ pkt = <<>>
    /\ attrs = {}

FieldNext ==
    \/ \E v \in Candidates(T[1]) : FieldSet(v)
    \/ FieldWrite
    \/ WriteStep
    \/ \E d \in RawChunks : RawWrite(d)
    \/ FieldRead
    \/ FieldStep
    \/ \E k \in 1..Len(buf[2]) : RecvData(k)
    \/ RecvTimeout
    \/ Tick

SpecField == FieldInit /\ [][FieldNext]_vars

----------------------------------------------------------------------------
(* Packet, lines 327-379.  One instance of the type of structure T is     *)
(* followed: the one the application holds.  Three threads use it: the one  *)
(* that writes on end 1, the one that reads on end 2, and the application,  *)
(* whose calls (constructor, update, setField, attribute assignment) do not *)
(* wait and can fall between any two steps of the others: packet.py takes   *)
(* no lock.  The reader may also send bytes back on end 2 between its       *)
(* reads.                                                                   *)

MaxCalls == 2       \* calls the application makes (constructor, update,
                    \* setField, attribute assignment)

\* The definitions of the Fields in the instance's __fields__: those of the
\* structure (lines 331-334), until __fields__ itself is assigned (line 379)
Table == IF "__fields__" \in attrs THEN <<>> ELSE T

\* Line 333: the structure has unique field names
UniqueNames == \A i, j \in 1..Len(T) : T[i].name = T[j].name => i = j

\* Lines 331-334: one Field per definition, holding its default (line 34)
Fresh == [i \in 1..Len(T) |-> T[i].default]

\* Lines 356-358, for an instance whose __fields__ holds the Fields of tbl
hasField(tbl, name) == \E i \in 1..Len(tbl) : tbl[i].name = name

\* The position of a name in __fields__
Index(tbl, name) == CHOOSE i \in 1..Len(tbl) : tbl[i].name = name

\* Lines 360-364, asValue=True, for a name in the table
getField(tbl, p, name) == p[Index(tbl, name)]

\* Lines 350-354
RECURSIVE CompleteFrom(_, _)
CompleteFrom(p, j) ==
    IF j > Len(p) THEN TRUE
    ELSE IF p[FieldOrder(Len(p))[j]] = None THEN FALSE
    ELSE CompleteFrom(p, j + 1)

isComplete(p) == CompleteFrom(p, 1)

\* Lines 366-367 on the instance r: [st, p, tbl], the values p of the Fields
\* of its table tbl; KeyError for a name that is not in the table
setField(r, name, v) ==
    IF r.st # "ok" THEN r
    ELSE IF ~hasField(r.tbl, name) THEN [r EXCEPT !.st = "KeyError"]
    ELSE [r EXCEPT !.p[Index(r.tbl, name)] = v]

\* Lines 346-348: the entries of the dict, in its order
RECURSIVE update(_, _)
update(r, d) ==
    IF d = <<>> THEN r
    ELSE update(setField(r, Head(d)[1], Head(d)[2]), Tail(d))

\* How many of the names of the dict d are not declared in the structure
Undeclareds(d) ==
    Cardinality({i \in 1..Len(d) : \A j \in 1..Len(T) : T[j].name # d[i][1]})

\* Lines 339-340 for an instance that is the value of a field
RECURSIVE NestedWriteFields(_, _, _, _)
NestedWriteFields(defs, p, j, w) ==
    IF j > Len(p) \/ w.st # "ok" THEN w
    ELSE LET i == FieldOrder(Len(p))[j] IN
         NestedWriteFields(defs, p, j + 1, FDWrite(defs[i], p[i], w))

\* Lines 337-340 for an instance that is the value of a field
PacketWriteOf(defs, p, w) ==
    IF w.st # "ok" THEN w
    ELSE IF ~isComplete(p) THEN Raise(w, "AssertionError")
    ELSE NestedWriteFields(defs, p, 1, w)

\* A read or a write of the instance the application holds is in progress
ReadBusy == fr.pc # "none" /\ fr.on = "held"
WriteBusy == wr.pc = "busy" /\ wr.on = "held"

\* The application makes one more call
Called ==
    /\ ncall < MaxCalls
    /\ ncall' = ncall + 1

\* The frames after a call of the application that leaves the instance its
\* field table
RacedRead == IF ReadBusy THEN [fr EXCEPT !.races = @ + 1] ELSE fr
RacedWrite == IF WriteBusy THEN [wr EXCEPT !.races = @ + 1] ELSE wr

\* The frames after a call that gives the application another field table (a
\* new instance, or the same with __fields__ assigned): the loops in progress
\* go on through the Fields of the table they started on.
LeftRead ==
    IF ~ReadBusy THEN fr
    ELSE [fr EXCEPT !.races = @ + 1,
                    !.on = IF WriteBusy THEN "writer" ELSE "gone"]
LeftWrite ==
    IF ~WriteBusy THEN wr
    ELSE [wr EXCEPT !.races = @ + 1, !.on = "own", !.tab = pkt]

\* Packet.__init__(**fieldValues), lines 330-335; the application holds the new
\* instance from then on, unless the constructor raises.
Construct(kw) ==
    /\ Called
    /\ LET r == IF ~UniqueNames THEN [st |-> "AssertionError", p |-> pkt, tbl |-> T]
                ELSE update([st |-> "ok", p |-> Fresh, tbl |-> T], kw)
       IN /\ pkt' = IF r.st = "ok" THEN r.p ELSE pkt
          /\ attrs' = IF r.st = "ok" THEN {} ELSE attrs
          /\ fr' = IF r.st = "ok" THEN LeftRead ELSE fr
          /\ wr' = IF r.st = "ok" THEN LeftWrite ELSE wr
          /\ res' = Outcome("construct", r.st, <<>>, Len(kw), Undeclareds(kw), 0)
    /\ UNCHANGED <<now, buf, peer, sock, timeout, rd, hist, T, fld, wlog, nrd>>

\* Packet.update(fieldsDict)
Update(d) ==
    /\ Called
    /\ LET r == update([st |-> "ok", p |-> pkt, tbl |-> Table], d) IN
          /\ pkt' = r.p
          /\ res' = Outcome("update", r.st, <<>>, Len(d), Undeclareds(d), 0)
    /\ fr' = RacedRead
    /\ wr' = RacedWrite
    /\ UNCHANGED <<now, buf, peer, sock, timeout, rd, hist, T, attrs, fld, wlog, nrd>>

\* Packet.setField(name, value)
SetField(name, v) ==
    /\ Called
    /\ LET r == setField([st |-> "ok", p |-> pkt, tbl |-> Table], name, v) IN
          /\ pkt' = r.p
          /\ res' = Outcome("setField", r.st, <<>>, 1,
                            Undeclareds(<< <<name, v>> >>), 0)
    /\ fr' = RacedRead
    /\ wr' = RacedWrite
    /\ UNCHANGED <<now, buf, peer, sock, timeout, rd, hist, T, attrs, fld, wlog, nrd>>

\* packet.name = value, lines 375-379.  A name in the field table goes to
\* setField; any other is stored as an ordinary attribute, and for the name
\* __fields__ that attribute is the field table itself: the instance has the
\* Fields of the assigned table (in the runs: none) from then on.
SetAttr(name, v) ==
    /\ Called
    /\ IF hasField(Table, name)
       THEN /\ pkt' = setField([st |-> "ok", p |-> pkt, tbl |-> Table], name, v).p
            /\ fr' = RacedRead
            /\ wr' = RacedWrite
            /\ UNCHANGED attrs
       ELSE IF name = "__fields__"
       THEN /\ attrs' = attrs \cup {name}
            /\ pkt' = <<>>
            /\ fr' = LeftRead
            /\ wr' = LeftWrite
       ELSE /\ attrs' = attrs \cup {name}
            /\ fr' = RacedRead
            /\ wr' = RacedWrite
            /\ UNCHANGED pkt
    /\ res' = Outcome("setattr", "ok", <<>>, 1, 0, 0)
    /\ UNCHANGED <<now, buf, peer, sock, timeout, rd, hist, T, fld, wlog, nrd>>

WriteAllowedAlways(p) == TRUE

\* Line 338: assert self.isComplete()
WriteAllowed(p) == isComplete(p)

\* Packet.write(tp) on end 1 (lines 337-340), of the instance the
\* application holds, up to the loop over its Fields.  A call that raises at
\* line 338, or whose instance has no Fields, ends here.
PacketWrite ==
    /\ wr.pc = "none"
    /\ Len(wlog) < MaxWrites
    /\ IF ~WriteAllowed(pkt)
       THEN /\ res' = [Outcome("pwrite", "AssertionError", <<>>, 0, 0, 0)
                        EXCEPT !.pre = pkt]
            /\ UNCHANGED <<wr, wlog>>
       ELSE IF pkt = <<>>
       THEN /\ res' = Outcome("pwrite", "ok", <<>>, 0, 0, 0)
            /\ wlog' = Logged("pwrite", "ok", <<>>, <<>>, <<>>)
            /\ UNCHANGED wr
       ELSE /\ wr' = [NoWriter EXCEPT !.pc = "busy", !.op = "pwrite",
                                      !.pre = pkt, !.n = Len(pkt), !.k = 1,
                                      !.on = "held"]
            /\ UNCHANGED <<res, wlog>>
    /\ UNCHANGED <<now, buf, peer, sock, timeout, rd, hist, T, pkt, attrs, fld, fr, nrd, ncall>>

\* Packet.read(tp) on end 2, lines 342-344, by the thread that reads on end
\* 2 (it makes one call at a time): the first field.read(tp), or the return
\* at once when the instance has no Fields
PacketRead ==
    /\ ThreadIdle
    /\ nrd < MaxReads
    /\ IF pkt = <<>>
       THEN /\ nrd' = nrd + 1
            /\ res' = Outcome("pread", "ok", <<>>, Len(wlog), 0, 0)
            /\ UNCHANGED <<rd, fr, faulted>>
       ELSE LET first == T[FieldOrder(Len(T))[1]] IN
            /\ fr' = EnterField([NoFrame EXCEPT !.pc = "wait", !.ctx = "packet",
                                                !.k = 1, !.nw = Len(wlog),
                                                !.fresh = (pkt = Fresh),
                                                !.pre = pkt],
                                first)
            /\ StartRead(FirstDef(first).length)
            /\ res' = NoOutcome
            /\ UNCHANGED nrd
    /\ UNCHANGED <<now, buf, peer, sock, timeout, sent, got, lost,
                   T, pkt, attrs, fld, wlog, wr, ncall>>

\* TestPacket of test.py line 121
TestPacket ==
    << setDefault(IntFD("TPID", 1), IntV(17)),
       setMaxLength(StringFD("TPVAL", 1), 32) >>

\* A type with three fields and no default
Triple ==
    << IntFD("A", 2), VarLengthFD("B", 1), FixedLengthFD("C", 1) >>

\* A Packet subclass used as the value type of a field
Inner == [name |-> "Inner", structure |-> << IntFD("X", 1) >>]

\* A type with a nested packet
Outer ==
    << FixedLengthFD("H", 1), SerializableFD("N", Inner) >>

PacketTypes == {TestPacket, Triple, Outer}

\* The values a run gives the field of definition fd
PacketCandidates(fd) ==
    CASE fd.name = "TPID" -> {None, IntV(17)}
      [] fd.name = "TPVAL" -> {None, StrV(<<72, 105>>), BytesV(<<7>>)}
      [] fd.name = "A" -> {None, IntV(258)}
      [] fd.name = "B" -> {None, BytesV(<<>>), BytesV(<<7>>)}
      [] fd.name = "C" -> {None, BytesV(<<7>>)}
      [] fd.name = "H" -> {None, BytesV(<<7>>)}
      [] fd.name = "N" -> {None, PacketV("Inner", <<IntV(5)>>),
                           PacketV("Inner", <<None>>)}

\* name=value pairs for the field of T[i]
Entries(i) == {<<T[i].name, v>> : v \in PacketCandidates(T[i])}

\* A pair whose name is not declared
Undeclared == <<"nonexistent", IntV(1)>>

\* The assignment p.__fields__ = collections.OrderedDict()
FieldTable == <<"__fields__", NoFields>>

Pairs == UNION {Entries(i) : i \in 1..Len(T)} \cup {Undeclared}

\* A value the definition fd accepts
Accepted(fd) ==
    CASE fd.name = "TPID" -> IntV(17)
      [] fd.name = "TPVAL" -> StrV(<<72, 105>>)
      [] fd.name = "A" -> IntV(258)
      [] fd.name = "B" -> BytesV(<<>>)
      [] fd.name = "C" -> BytesV(<<7>>)
      [] fd.name = "H" -> BytesV(<<7>>)
      [] fd.name = "N" -> PacketV("Inner", <<IntV(5)>>)

\* A dict that gives every declared field a value
FullDict == [i \in 1..Len(T) |-> <<T[i].name, Accepted(T[i])>>]

\* The dicts given to the constructor and to update, in their order: none,
\* one for every field, an undeclared name alone and after a declared one
Dicts == {<<>>, FullDict, <<Undeclared>>, <<FullDict[1], Undeclared>>}

\* The attribute assignments of the runs: to the last declared field, to an
\* undeclared name and to __fields__
Assignments == Entries(Len(T)) \cup {Undeclared, FieldTable}

\* The reader sends two bytes back on end 2 (nobody reads them on end 1)
Reply == Write(2, <<0, 0>>)

PacketInit ==
    /\ TransportInit
    /\ T \in PacketTypes
    /\ pkt = Fresh
    /\ attrs = {}
    /\ fld = None

PacketNext ==
    \/ \E kw \in Dicts : Construct(kw)
    \/ \E d \in Dicts : Update(d)
    \/ \E a \in Pairs : SetField(a[1], a[2])
    \/ \E a \in Assignments : SetAttr(a[1], a[2])
    \/ PacketWrite
    \/ WriteStep
    \/ PacketRead
    \/ FieldStep
    \/ \E k \in 1..Len(buf[2]) : RecvData(k)
    \/ RecvTimeout
    \/ RecvEOF
    \/ RecvError
    \/ Reply
    \/ SendTimeout
    \/ SendError
    \/ Close
    \/ CloseLocal
    \/ Tick

SpecPacket == PacketInit /\ [][PacketNext]_vars

----------------------------------------------------------------------------
(* Packet layer properties                                                  *)

\* The declared structure order of a type with n fields
Declared(n) == [j \in 1..n |-> j]

\* The encoding of value v by the definition of the i-th declared field
Encoding(i, v) == FDWrite(T[i], v, NoWrite).out

\* The encodings of the values of p from the i-th declared field on
RECURSIVE Encodings(_, _)
Encodings(p, i) ==
    IF i > Len(p) THEN <<>> ELSE Encoding(i, p[i]) \o Encodings(p, i + 1)

\* C4: every complete packet written on end 1 is read back on end 2 with
\* every field equal to the written one, whatever the split of the bytes
\* over the receive attempts; the n-th read gives the n-th packet written.
\* (The pair is connected; the instances written have the Fields of the
\* structure; the n-th write had returned when the n-th read was called; the
\* read was not cut short by the clock, and the application made no call on
\* the receiving instance meanwhile.  Types with a nested packet are the
\* subject of C11.)
C4_PacketRoundTrip ==
    ( /\ res.op = "pread"
      /\ \A i \in 1..Len(T) : T[i].kind # "Serializable"
      /\ fr.pc = "none"
      /\ sock = "open"
      /\ res.races = 0
      /\ res.st \notin {"Timeout", "ValueError"}
      /\ nrd <= res.num
      /\ \A i \in 1..nrd : wlog[i].st = "ok" /\ Len(wlog[i].vals) = Len(T)
      /\ res.fresh )
    => ( /\ res.st = "ok"
         /\ pkt = wlog[nrd].vals )

\* C11: for a type with a SerializableFD field, a successful write sends the
\* encodings of the nested packet's fields in place of the field, and the
\* read that follows (on a connected pair, called after the write returned,
\* not cut short by the clock, the application making no call on the
\* receiving instance meanwhile) returns without a fault with the field
\* holding an instance whose fields equal the written ones.
C11_NestedRoundTrip ==
    /\ ( /\ res.op = "pwrite"
          /\ res.st = "ok"
          /\ res.log # <<>>
          /\ T = Outer )
       => LET written == wlog[Len(wlog)].vals IN
          res.val = written[1].b \o ToBytes(written[2].f[1].i, 1, "big", FALSE)
    /\ ( /\ res.op = "pread"
          /\ fr.pc = "none"
          /\ T = Outer
          /\ sock = "open"
          /\ res.races = 0
          /\ res.pre # <<>>
          /\ res.st \notin {"Timeout", "ValueError"}
          /\ nrd <= res.num
          /\ \A i \in 1..nrd : wlog[i].st = "ok" /\ Len(wlog[i].vals) = Len(T) )
       => ( /\ res.st = "ok"
            /\ pkt = wlog[nrd].vals )

\* C12: a write of the field/packet layer that raises because a value is
\* rejected (checkValue fails or the value cannot be encoded) has sent no
\* bytes.
C12_RejectedWriteSendsNothing ==
    ( /\ res.op \in {"fwrite", "pwrite"}
      /\ res.st \in {"AssertionError", "OverflowError"} )
    => res.val = <<>>

\* The names given to hasField: the declared ones, an ordinary attribute name
\* and the name of the field table
NamesTried == {T[i].name : i \in 1..Len(T)} \cup {Undeclared[1], FieldTable[1]}

\* C15: the fields of an instance are those of the structure, whatever was
\* updated, set, assigned as attribute or read: the instance has one Field
\* per declared definition, hasField(name) is true exactly for the declared
\* names, and the constructor, update and setField raise KeyError for a name
\* that is not declared.
C15_FieldsFixed ==
    /\ Len(pkt) = Len(T)
    /\ \A name \in NamesTried :
          hasField(Table, name) <=> \E i \in 1..Len(T) : T[i].name = name
    /\ ( /\ res.op \in {"construct", "update", "setField"}
          /\ res.rcv > 0 )
       => res.st = "KeyError"

\* The part of C15 the code keeps: as long as __fields__ itself has not been
\* assigned, the fields are those of the structure.
FieldsFixedUntilAssigned == FieldTable[1] \notin attrs => C15_FieldsFixed

\* C18: when Packet.read returns without raising, every field of the
\* instance has been assigned by that call and holds a present (non-None)
\* value, so isComplete() holds on the instance, whatever its fields held
\* before the call.  (Looked at on the instance the application holds, when
\* its field table is the one the read went through.)
C18_ReadLeavesComplete ==
    (res.op = "pread" /\ res.st = "ok" /\ fr.pc = "none" /\ res.on = "held")
        => /\ isComplete(pkt)
           /\ res.log = Declared(Len(pkt))
           /\ \A i \in 1..Len(pkt) : pkt[i] # None /\ checkValue(T[i], pkt[i])

\* C18 as amended: the same, for a read during which the application made no
\* call on the instance.
C18_ReadAloneLeavesComplete ==
    (res.op = "pread" /\ res.st = "ok" /\ fr.pc = "none" /\ res.races = 0)
        => /\ isComplete(pkt)
           /\ res.log = Declared(Len(pkt))
           /\ \A i \in 1..Len(pkt) : pkt[i] # None /\ checkValue(T[i], pkt[i])

\* A successful read, with no call of the application meanwhile, on an
\* instance of three fields of which one had no value and another had one
C18_Witness ==
    /\ res.op = "pread"
    /\ res.st = "ok"
    /\ fr.pc = "none"
    /\ res.races = 0
    /\ Len(res.pre) = 3
    /\ ~isComplete(res.pre)
    /\ isComplete(pkt)
    /\ \E i \in 1..Len(T) : res.pre[i] # None

\* The fields 1..i all have a fixed encoded length
FixedRun(i) == \A j \in 1..i : T[j].kind \in {"Fixed", "Int"}

RECURSIVE Offset(_)
\* The number of bytes the fields before field i take in a fixed run
Offset(i) == IF i <= 1 THEN 0 ELSE Offset(i - 1) + T[i - 1].length

\* What C19 says of a read that has raised at the field of position k
PartialAt(k) ==
    /\ k \in 1..Len(T)
    /\ res.log = Declared(k - 1)
    /\ \A i \in 1..(k - 1) :
         /\ pkt[i] # None
         /\ checkValue(T[i], pkt[i])
         /\ FixedRun(i) =>
              pkt[i] = ReadValue(T[i], SubSeq(res.val, Offset(i) + 1,
                                              Offset(i) + T[i].length))
    /\ \A i \in k..Len(T) : pkt[i] = res.pre[i]

\* C19: when Packet.read raises while reading the k-th declared field, the
\* fields before the k-th have been assigned, in order, the values decoded
\* from the bytes consumed, and the k-th and all later fields hold what they
\* held before the call.  (Looked at on the instance the application holds,
\* when its field table is the one the read went through.)
C19_PartialRead ==
    (res.op = "pread" /\ res.st # "ok" /\ fr.pc = "none" /\ res.on = "held")
        => PartialAt(res.rcv)

\* C19 as amended: the same, for a read during which the application made no
\* call on the instance.
C19_PartialReadAlone ==
    (res.op = "pread" /\ res.st # "ok" /\ fr.pc = "none" /\ res.races = 0)
        => PartialAt(res.rcv)

\* A read, with no call of the application meanwhile, that failed at a later
\* field than the first: the first field was replaced, the field it failed
\* at had a value and kept it
C19_Witness ==
    /\ res.op = "pread"
    /\ res.st # "ok"
    /\ fr.pc = "none"
    /\ res.races = 0
    /\ res.rcv >= 2
    /\ pkt[1] # res.pre[1]
    /\ res.pre[res.rcv] # None
    /\ pkt[res.rcv] = res.pre[res.rcv]

\* C5: Packet.write on an instance with a field without a value, whichever
\* it is, raises the assertion fault and sends no bytes.
C5_IncompleteWriteSendsNothing ==
    [][ ( /\ res'.op = "pwrite"
          /\ (res' # res \/ wlog' # wlog)
          /\ \E i \in 1..Len(res'.pre) : res'.pre[i] = None )
        => ( /\ res'.st = "AssertionError"
             /\ res'.val = <<>>
             /\ sent' = sent
             /\ buf' = buf ) ]_vars

\* An incomplete write was refused on a type with three fields of which
\* only the last is missing.
C5_Witness ==
    /\ res.op = "pwrite"
    /\ res.st = "AssertionError"
    /\ Len(T) = 3
    /\ Len(res.pre) = 3
    /\ res.pre[1] # None
    /\ res.pre[2] # None
    /\ res.pre[3] = None
    /\ sent = <<>>

\* The current value of the declared field of position i is present
Present(i) ==
    /\ hasField(Table, T[i].name)
    /\ getField(Table, pkt, T[i].name) # None

\* C6: in every reachable state isComplete() is true iff every declared
\* field holds a value; an instance built with no initial values is complete
\* iff every declared field has a default.
C6_IsCompleteIffAllPresent ==
    /\ isComplete(pkt) <=> \A i \in 1..Len(T) : Present(i)
    /\ (res.op = "construct" /\ res.st = "ok" /\ res.num = 0)
       => (isComplete(pkt) <=> \A i \in 1..Len(T) : T[i].default # None)

\* The part of C6 the code keeps: as long as __fields__ itself has not been
\* assigned, isComplete() tells whether every declared field holds a value.
CompleteUntilAssigned == FieldTable[1] \notin attrs => C6_IsCompleteIffAllPresent

\* C8: a successful Packet.write sends exactly its fields' encodings in the
\* declared order (each field encoded as it is when its turn comes);
\* Packet.write and Packet.read go through the fields in the declared order,
\* the k-th never before the (k-1)-th, and a call that returns has gone
\* through every field of the instance.
C8_DeclaredOrder ==
    /\ wr.op = "pwrite" => wr.log = Declared(Len(wr.log))
    /\ res.op = "pwrite" => res.log = Declared(Len(res.log))
    /\ (res.op = "pwrite" /\ res.st = "ok")
       => ( /\ res.log = Declared(Len(res.pre))
            /\ res.val = Encodings(wlog[Len(wlog)].vals, 1) )
    /\ fr.ctx = "packet"
       => ( /\ fr.alog = Declared(Len(fr.alog))
            /\ CurField = Len(fr.alog) + 1 )
    /\ res.op = "pread" => res.log = Declared(Len(res.log))
    /\ (res.op = "pread" /\ res.st = "ok") => res.log = Declared(Len(res.pre))

\* A packet of three fields was written and read back, one of its fields
\* having been set to another value while the write was in progress.
C8_Witness ==
    /\ res.op = "pread"
    /\ res.st = "ok"
    /\ fr.pc = "none"
    /\ Len(T) = 3
    /\ nrd = 1
    /\ Len(wlog) = 1
    /\ wlog[1].st = "ok"
    /\ wlog[1].vals # wlog[1].pre
    /\ pkt = wlog[1].vals
    /\ res.val = wlog[1].out
    /\ res.log = <<1, 2, 3>>

----------------------------------------------------------------------------

PeerWrite ==
    \E n \in 0..MaxWrite :
        /\ Len(sent) + n <= MaxSent
        /\ Write(1, NextBytes(n))

LocalWrite == \E n \in 0..MaxWrite : Write(2, [i \in 1..n |-> 0])

Init ==
    /\ TransportInit
    /\ T = <<>>
    /\ pkt = <<>>
    /\ attrs = {}
    /\ fld = None

Next ==
    \/ PeerWrite
    \/ LocalWrite
    \/ \E a \in 0..MaxAmount : ReadCall(a)
    \/ \E k \in 1..Len(buf[2]) : RecvData(k)
    \/ RecvTimeout
    \/ RecvEOF
    \/ RecvError
    \/ SendTimeout
    \/ SendError
    \/ HasData
    \/ SelectReady
    \/ SelectTimeout
    \/ \E t \in 1..MaxTimeout : SetTimeout(t)
    \/ ResetTimeout
    \/ Close
    \/ CloseLocal
    \/ Tick

Spec == Init /\ [][Next]_vars

----------------------------------------------------------------------------
(* Claims about Transport, checked under Spec *)

\* C1: whenever Transport.read(amount) returns normally, the returned byte
\* sequence has length exactly amount.
C1_ReadReturnsExactlyAmount ==
    (res.op = "read" /\ res.st = "ok") => Len(res.val) = res.num

\* C2: as long as every read on end 2 has succeeded, the concatenation of the
\* read results in call order is a prefix of the concatenation of the byte
\* sequences written on end 1 in call order, and the bytes not yet returned
\* are still on their way in order: nothing is reordered, duplicated or lost.
C2_ReadsArePrefixOfWrites ==
    ~faulted => /\ IsPrefix(got, sent)
                /\ got \o rd.data \o buf[2] = sent

\* Every byte written has been returned by successful reads, the last of
\* which returned more than one byte.
C2_Witness ==
    /\ ~faulted
    /\ got = sent
    /\ Len(sent) = MaxSent
    /\ res.op = "read" /\ res.st = "ok" /\ Len(res.val) > 1

\* C3: a read that ends while fewer than amount bytes were ever available to
\* it (received by it or still unread when it ends) on a connected pair ends by
\* raising Timeout, not any other fault.
C3_ShortReadRaisesTimeout ==
    (/\ res.op = "read"
     /\ peer = "open"
     /\ sock = "open"
     /\ res.rcv + Len(buf[2]) < res.num) => (res.st = "Timeout" /\ res.val = <<>>)

\* C13: when Transport.read returns or raises Timeout, the active timeout is
\* the one of call entry, whatever per-attempt timeouts were applied.
C13_ReadRestoresTimeout ==
    ( /\ res.op = "read"
      /\ res.st \in {"ok", "Timeout"}
      /\ rd.pc = "idle" )
    => timeout = res.t0

\* A read returned after an attempt made under a shorter timeout.
C13_Witness ==
    /\ res.op = "read"
    /\ res.st = "ok"
    /\ rd.pc = "idle"
    /\ res.num > 0
    /\ res.tlast # res.t0
    /\ timeout = res.t0

\* C16: a read on an open Transport whose receive attempts have brought the
\* accumulated total to amount bytes returns them; Timeout (or any fault) is raised only with
\* fewer than amount bytes accumulated.
C16_CompleteReadSucceeds ==
    ( /\ res.op = "read"
      /\ sock = "open"
      /\ res.rcv >= res.num )
    => res.st = "ok"

\* The stream position of end 2: how many of the bytes written on end 1 its
\* socket has handed to read calls
Position == Len(sent) - Len(buf[2])

\* The bytes received by reads that ended in Timeout
TimedOut == SelectSeq(lost, LAMBDA e : e.st = "Timeout")

\* C20: the bytes received by a read that ends in Timeout are discarded.  When
\* the call ends, the stream position stands right after the bytes it
\* received; those bytes are not pending any more, no read ever returns one
\* of them, and a later successful read returns only bytes after them.
C20_TimeoutDiscards ==
    /\ (res.op = "read" /\ res.st = "Timeout" /\ rd.pc = "idle")
          => /\ Len(lost) >= res.rcv
             /\ \A i \in 1..res.rcv :
                   lost[Len(lost) - res.rcv + i]
                     = [b |-> Position - res.rcv + i, st |-> "Timeout"]
    /\ \A i \in 1..Len(TimedOut) :
          /\ \A j \in 1..Len(got) : got[j] # TimedOut[i].b
          /\ \A j \in 1..Len(rd.data) : rd.data[j] # TimedOut[i].b
          /\ \A j \in 1..Len(buf[2]) : buf[2][j] # TimedOut[i].b
          /\ TimedOut[i].b <= Position
    /\ (res.op = "read" /\ res.st = "ok" /\ rd.pc = "idle")
          => \A i \in 1..Len(TimedOut) :
                \A j \in 1..Len(res.val) : TimedOut[i].b < res.val[j]

\* A read that returned bytes after an earlier read had ended in Timeout with
\* bytes received
C20_Witness ==
    /\ res.op = "read"
    /\ res.st = "ok"
    /\ rd.pc = "idle"
    /\ res.val # <<>>
    /\ TimedOut # <<>>
    /\ TimedOut[1].b = 1
    /\ res.val[1] = Len(TimedOut) + 1

\* Scheduling for termination: time advances while a receive attempt waits,
\* and a receive attempt that can return (bytes present, its timeout over,
\* the peer closed or reset) does return (lines 69-73, 81-83).
Fairness ==
    /\ WF_vars(Tick)
    /\ WF_vars(\E k \in 1..Len(buf[2]) : RecvData(k))
    /\ WF_vars(RecvTimeout)
    /\ WF_vars(RecvEOF)
    /\ WF_vars(RecvError)

SpecLive == Init /\ [][Next]_vars /\ Fairness

\* A read in progress.
ReadPending == rd.pc = "recv"

\* C17: every read(amount) made with a finite positive timeout eventually
\* terminates, and does so by returning or by raising Timeout or
\* NetworkError; its deadline is the one fixed at call entry.
C17_ReadTerminates ==
    ReadPending ~> (/\ rd.pc = "idle"
                    /\ res.op = "read"
                    /\ res.st \in {"ok", "Timeout", "NetworkError"})

\* The part of C17 the code keeps: the read does terminate.
ReadEnds == ReadPending ~> (rd.pc = "idle")

\* The part of C17 the code keeps: the deadline set at entry never moves.
DeadlineFixed ==
    [][(rd.pc = "recv" /\ rd'.pc = "recv") => rd'.deadline = rd.deadline]_vars

\* C14: read(0) on a Transport that has not been closed returns the empty
\* byte sequence at once, makes no receive attempt, and leaves the unread
\* bytes and the active timeout as they were, whatever the peer has done.
C14_ReadZero ==
    [][ ( /\ res'.op = "read"
          /\ res'.num = 0
          /\ res' # res
          /\ sock = "open" )
        => ( /\ res'.st = "ok"
             /\ res'.val = <<>>
             /\ res'.rcv = 0
             /\ rd' = IdleRd
             /\ buf' = buf
             /\ got' = got
             /\ timeout' = timeout
             /\ now' = now ) ]_vars

\* read(0) has returned while bytes were pending, under a timeout that is
\* not the default one.
C14_Witness ==
    /\ res.op = "read"
    /\ res.num = 0
    /\ res.st = "ok"
    /\ rd.pc = "idle"
    /\ buf[2] # <<>>
    /\ timeout = res.t0
    /\ timeout # DefaultTimeout

\* C7: on a connected pair hasData() returns a truth value that is true iff
\* some byte written by the peer is still unread on this end (at its return:
\* no other call has been made or has ended since).
C7_HasDataIffUnread ==
    (res.op = "hasData" /\ rd.pc = "idle" /\ peer = "open" /\ sock = "open") =>
        (res.st = "ok" /\ (res.num # 0 <=> buf[2] # <<>>))


----------------------------------------------------------------------------
(* Claims about the field definitions, checked under SpecField *)

\* C9: for FixedLengthFD, VarLengthFD and IntFD and a value v that checkValue
\* accepts, once a Field holding v has been written on end 1, a read of the
\* Field on end 2 (the first read, called after the write returned, and not
\* cut short by the clock) leaves the Field's value equal to v and consumes
\* exactly the bytes that were written.
C9_FieldRoundTrip ==
    (/\ res.op = "fread"
     /\ nrd = 1
     /\ fr.pc = "none"
     /\ res.st \notin {"Timeout", "ValueError"}
     /\ res.num >= 1
     /\ wlog[1].op = "fwrite" /\ wlog[1].st = "ok"
     /\ T[1].kind \in {"Fixed", "Var", "Int"}
     /\ checkValue(T[1], wlog[1].vals[1]))
    => (/\ res.st = "ok"
        /\ fld = wlog[1].vals[1]
        /\ res.val = wlog[1].out)

InBounds(fd, n) ==
    (fd.min = None \/ fd.min.i <= n) /\ (fd.max = None \/ n < fd.max.i)

EncodedLen(fd, v) == IF fd.kind = "String" THEN Len(Utf8Encode(v.b)) ELSE Len(v.b)

\* C10: IntFD bounds are inclusive-minimum and exclusive-maximum on both
\* paths.  checkValue(v) holds iff v is an integer within [min, max); a write
\* of an integer outside raises the validation fault and sends nothing; a read
\* never returns a value outside but raises the validation fault.  The length
\* prefix of VarLengthFD and StringFD obeys the same bounds on both paths.
C10_IntBounds ==
    LET fd == T[1] IN
    /\ fd.kind = "Int" =>
        /\ \A v \in Candidates(fd) :
              checkValue(fd, v) <=> (v.t = "int" /\ InBounds(fd, v.i))
        /\ (res.op = "fwrite" /\ res.pre[1].t = "int"
                               /\ ~InBounds(fd, res.pre[1].i))
              => (res.st = "AssertionError" /\ res.val = <<>>)
        /\ (res.op = "fread" /\ res.st = "ok")
              => (fld.t = "int" /\ InBounds(fd, fld.i))
        /\ (/\ res.op = "fread"
            /\ Len(res.val) = fd.length
            /\ ~InBounds(fd, FromBytes(res.val, fd.order, fd.signed)))
              => res.st = "AssertionError"
    /\ HasPrefix(fd) =>
        /\ (/\ res.op = "fwrite"
            /\ checkValue(fd, res.pre[1])
            /\ ~InBounds(fd, EncodedLen(fd, res.pre[1])))
              => (res.st = "AssertionError" /\ res.val = <<>>)
        /\ (res.op = "fread" /\ res.st = "ok")
              => InBounds(fd, FromBytes(Take(res.val, fd.length), fd.order, FALSE))

\* A read of an IntFD with bounds meets the bytes of its maximum and raises.
C10_Witness ==
    /\ res.op = "fread"
    /\ res.st = "AssertionError"
    /\ T[1].kind = "Int"
    /\ T[1].max # None
    /\ Len(res.val) = T[1].length
    /\ FromBytes(res.val, T[1].order, T[1].signed) = T[1].max.i

====
